---- MODULE Spec2Model ----
(***************************************************************************)
(* redirectionio/fastly-worker: the action-application pipeline.           *)
(*                                                                         *)
(* One request is handled to completion: main builds the canonical         *)
(* request, resolves an Action, runs Application::proxy on it and then     *)
(* Application::log.  The Action (redirectionio::action::Action), the      *)
(* origin backend and the log endpoint are external: every answer they     *)
(* give is drawn from a small set when the call is made.                   *)
(*                                                                         *)
(* Text is modelled as a sequence of lexemes (a header value               *)
(* "text/html; charset=UTF-8" is <<"text/html; charset=", "UTF-8">>), a    *)
(* body as a sequence of byte groups.  A header is a list of values, as in *)
(* fastly's API: get_header reads the first, set_header leaves exactly     *)
(* one, remove_header leaves none.                                         *)
(***************************************************************************)
EXTENDS Integers, Sequences, FiniteSets, TLC

VARIABLES
    pc,                          \* position of main / proxy / log
    req,                         \* the fastly Request (moved into proxy)
    original_req,                \* history: the request as it came in
    action_calls,                \* history: the calls made on the Action, in order
    status_code_before_response, \* proxy local, application.rs:156
    accept_encoding,             \* proxy local, application.rs:158
    request_method,              \* proxy local, application.rs:168
    response,                    \* proxy local `response`, then main's
    backend_status_code,         \* proxy local, application.rs:178
    origin_sent,                 \* history: the requests dispatched to the origin
    origin_response,             \* history: the response as first obtained
    filtered_response,           \* history: the response after the header step
    decode_calls,                \* history: number of decode_original_body calls
    decode_result,               \* history: what decode_original_body returned
    api_outcome,                 \* history: how the call to {api_endpoint}/{token}/action went
    errors,                      \* FastlyLogger::log_error messages, in order
    proxy_result,                \* "none" | "Ok" | "Err" | "panic"
    log_records,                 \* the Log records built by Log::from_proxy
    log_posts,                   \* POSTs sent to {api_endpoint}/{token}/log
    main_result                  \* what main returned

vars == <<pc, req, original_req, action_calls, status_code_before_response, accept_encoding,
          request_method, response, backend_status_code, origin_sent,
          origin_response, filtered_response, decode_calls, errors,
          proxy_result, log_records, log_posts, main_result,
          decode_result, api_outcome>>

----------------------------------------------------------------------------
(* Bounds *)

\* Longest origin body text, in byte groups.
MaxBodyLen == 1

----------------------------------------------------------------------------
(* Text, header values *)

\* A byte group that is not valid UTF-8 / not visible ASCII.
BadByte == "\\xFF"

\* str::to_lowercase, lexeme by lexeme.
ToLowercase(s) ==
    [i \in 1..Len(s) |->
        CASE s[i] = "UTF-8" -> "utf-8"
          [] s[i] = "GZIP"  -> "gzip"
          [] OTHER          -> s[i]]

\* str::contains(pat) for a one-lexeme pattern.
Contains(s, pat) == \E i \in 1..Len(s) : s[i] = pat

\* HeaderValue::to_str: Err when the value holds a byte that is not text.
ToStrOk(v) == ~Contains(v, BadByte)

----------------------------------------------------------------------------
(* Headers: fastly::Request / fastly::Response header maps *)

CONTENT_TYPE     == "content-type"
CONTENT_ENCODING == "content-encoding"
ACCEPT_ENCODING  == "accept-encoding"
COMPRESS_HINT    == "x-compress-hint"

\* The header names of the model, in the order get_header_names yields them.
HeaderOrder == <<CONTENT_TYPE, CONTENT_ENCODING, COMPRESS_HINT, "x-origin", "location",
                 ACCEPT_ENCODING>>
HeaderNames == {HeaderOrder[i] : i \in 1..Len(HeaderOrder)}

\* No header at all (Response::new(), Request::new()).
NoHeaders == [n \in HeaderNames |-> <<>>]

\* get_header(name): Option of the first value.
HasHeader(m, name) == m.headers[name] # <<>>
GetHeader(m, name) == m.headers[name][1]

\* set_header(name, value): the header now has exactly this value.
SetHeader(m, name, value) ==
    [m EXCEPT !.headers = [@ EXCEPT ![name] = <<value>>]]

\* remove_header(name).
RemoveHeader(m, name) ==
    [m EXCEPT !.headers = [@ EXCEPT ![name] = <<>>]]

\* redirectionio::http::Header
Header(name, value) == [name |-> name, value |-> value]

\* application.rs:185-201 and 267-282: the headers whose value is text, as a
\* Vec<Header>; a value that is not text is skipped.
RECURSIVE CollectFrom(_, _)
CollectFrom(m, i) ==
    IF i > Len(HeaderOrder) THEN <<>>
    ELSE LET name == HeaderOrder[i] IN
         IF HasHeader(m, name) /\ ToStrOk(GetHeader(m, name))
         THEN <<Header(name, GetHeader(m, name))>> \o CollectFrom(m, i + 1)
         ELSE CollectFrom(m, i + 1)
CollectHeaders(m) == CollectFrom(m, 1)

\* application.rs:205-207: set_header for each header of the filtered list.
RECURSIVE ApplyHeaders(_, _)
ApplyHeaders(m, hs) ==
    IF hs = <<>> THEN m
    ELSE ApplyHeaders(SetHeader(m, Head(hs).name, Head(hs).value), Tail(hs))

----------------------------------------------------------------------------
(* Bodies and decode_original_body *)

GzHeader  == "gz:header"
GzTrailer == "gz:trailer"

\* What a gzip encoder makes of a text: member header, payload, trailer.
GzipCompress(text) == <<GzHeader>> \o text \o <<GzTrailer>>

\* String::from_utf8: Ok iff every byte group is valid UTF-8 (the gzip
\* framing bytes 0x1f 0x8b are not).
Utf8Ok(bytes) ==
    \A i \in 1..Len(bytes) : bytes[i] \notin {BadByte, GzHeader, GzTrailer}

\* libflate Decoder::new + read_to_end: Ok iff header and trailer are there.
GunzipOk(bytes) ==
    /\ Len(bytes) >= 2
    /\ bytes[1] = GzHeader
    /\ bytes[Len(bytes)] = GzTrailer
Gunzip(bytes) == SubSeq(bytes, 2, Len(bytes) - 1)

DecodeOk(body)   == [kind |-> "Ok", body |-> body, err |-> "none"]
DecodeErr(e)     == [kind |-> "Err", body |-> <<>>, err |-> e]
DecodePanic      == [kind |-> "panic", body |-> <<>>, err |-> "none"]

\* Mutant: an encoding other than gzip is taken as no encoding.
decode_original_body_PassesUnsupported(resp) ==
    LET gzipped == /\ HasHeader(resp, CONTENT_ENCODING)
                   /\ GetHeader(resp, CONTENT_ENCODING) = <<"gzip">>
        bytes == IF gzipped THEN Gunzip(resp.body) ELSE resp.body
    IN  IF HasHeader(resp, CONTENT_ENCODING)
           /\ ~ToStrOk(GetHeader(resp, CONTENT_ENCODING))
        THEN DecodePanic
        ELSE IF gzipped /\ ~GunzipOk(resp.body) THEN DecodeErr("DecodingFailed")
        ELSE IF Utf8Ok(bytes) THEN DecodeOk(bytes)
        ELSE DecodeErr("DecodingFailed")

\* application.rs:329-351
decode_original_body(resp) ==
    IF ~HasHeader(resp, CONTENT_ENCODING)
    THEN IF Utf8Ok(resp.body) THEN DecodeOk(resp.body)
         ELSE DecodeErr("DecodingFailed")
    ELSE LET encoding == GetHeader(resp, CONTENT_ENCODING) IN
         IF ~ToStrOk(encoding) THEN DecodePanic
         ELSE IF encoding = <<"gzip">>
              THEN IF ~GunzipOk(resp.body) THEN DecodeErr("DecodingFailed")
                   ELSE IF Utf8Ok(Gunzip(resp.body))
                        THEN DecodeOk(Gunzip(resp.body))
                        ELSE DecodeErr("DecodingFailed")
              ELSE DecodeErr("EncodingNotSupported")

----------------------------------------------------------------------------
(* The inputs: inbound requests, origin responses, the Action's answers *)

Methods == {"GET", "HEAD"}

AcceptEncodingValues ==
    {<<>>, <<<<"gzip", ", deflate, br">>>>, <<<<"br">>>>, <<<<BadByte>>>>}

Requests ==
    {[method |-> m, url |-> "/old-path",
      headers |-> [NoHeaders EXCEPT ![ACCEPT_ENCODING] = ae]] :
        m \in Methods, ae \in AcceptEncodingValues}

\* Status codes the origin answers with, and those an Action overrides with.
OriginStatuses == {200, 404}
ActionStatuses == {301, 410}
StatusOrZero   == {0} \cup ActionStatuses

BodyChars == {"old", BadByte}
Texts == UNION {[1..n -> BodyChars] : n \in 0..MaxBodyLen}
OriginBodies ==
    Texts \cup {GzipCompress(t) : t \in Texts} \cup {<<GzHeader, "old">>}

ContentTypeValues ==
    {<<>>, <<<<"text/html">>>>, <<<<"text/html; charset=", "utf-8">>>>,
     <<<<"text/html; charset=", "UTF-8">>>>, <<<<BadByte>>>>}
ContentEncodingValues ==
    {<<>>, <<<<"gzip">>>>, <<<<"br">>>>, <<<<BadByte>>>>}

OriginResponses ==
    {[status |-> s, body |-> b,
      headers |-> [NoHeaders EXCEPT ![CONTENT_TYPE] = ct,
                                    ![CONTENT_ENCODING] = ce,
                                    !["x-origin"] = <<<<"v">>>>]] :
        s \in OriginStatuses, b \in OriginBodies,
        ct \in ContentTypeValues, ce \in ContentEncodingValues}

\* Response::new() followed by set_status(status): no header, empty body.
NewResponse(status) == [status |-> status, body |-> <<>>, headers |-> NoHeaders]

\* Action::filter_headers is external: it answers with the list it was given,
\* with one header removed, added or rewritten.
RemoveNamed(hs, name) == SelectSeq(hs, LAMBDA h : h.name # name)
HeaderFilterResults(hs) ==
    {hs}
    \cup {RemoveNamed(hs, n) : n \in {"x-origin", CONTENT_TYPE, CONTENT_ENCODING}}
    \cup {RemoveNamed(hs, h.name) \o <<h>> :
            h \in {Header("location", <<"/new-path">>),
                   Header(CONTENT_TYPE, <<"text/html; charset=", "utf-8">>),
                   Header(COMPRESS_HINT, <<"on">>)}}

\* Action::create_filter_body is external: None, or a filter that rewrites
\* "old" to "new" and whose end() returns `last`.
NoFilter == [some |-> FALSE, last |-> <<>>]
BodyFilters == {[some |-> TRUE, last |-> l] : l \in {<<>>, <<"tail">>}}
\* FilterBodyAction::filter
Filter(f, body) ==
    [i \in 1..Len(body) |-> IF body[i] = "old" THEN "new" ELSE body[i]]
\* FilterBodyAction::end
End(f) == f.last

\* A call on the Action, as recorded in action_calls.
Call(op, arg, ret) == [op |-> op, arg |-> arg, ret |-> ret]

----------------------------------------------------------------------------
(* State after construction: main has been handed one inbound request *)

NoResponse == NewResponse(0)

\* decode_original_body has not been called.
NotDecoded == [kind |-> "none", body |-> <<>>, err |-> "none"]

\* How resolving the Action went: the request serialized or not, the POST
\* sent or not, the status of the answer, its body deserializing or not.
ApiOutcome(json_ok, sent, status, parses) ==
    [asked |-> TRUE, json_ok |-> json_ok, sent |-> sent, status |-> status,
     parses |-> parses]
NotAsked == [ApiOutcome(FALSE, FALSE, 0, FALSE) EXCEPT !.asked = FALSE]
ApiOutcomes ==
    {ApiOutcome(FALSE, FALSE, 0, FALSE), ApiOutcome(TRUE, FALSE, 0, FALSE)}
    \cup {ApiOutcome(TRUE, TRUE, st, p) : st \in {200, 500}, p \in BOOLEAN}

Init ==
    /\ pc = "main"
    /\ req \in Requests
    /\ original_req = req
    /\ action_calls = <<>>
    /\ status_code_before_response = 0
    /\ accept_encoding = FALSE
    /\ request_method = "none"
    /\ response = NoResponse
    /\ backend_status_code = 0
    /\ origin_sent = <<>>
    /\ origin_response = NoResponse
    /\ filtered_response = NoResponse
    /\ decode_calls = 0
    /\ decode_result = NotDecoded
    /\ api_outcome = NotAsked
    /\ errors = <<>>
    /\ proxy_result = "none"
    /\ log_records = <<>>
    /\ log_posts = <<>>
    /\ main_result = "none"

proxy_vars == <<original_req, status_code_before_response, accept_encoding, request_method,
                backend_status_code, filtered_response, decode_calls,
                proxy_result>>
log_vars == <<log_records, log_posts>>

----------------------------------------------------------------------------
(* main, before proxy: main.rs:73-81 *)

\* main.rs:73-76 with create_rio_request (application.rs:54-81): None when the
\* URL does not parse, and main then sends the request to the origin.
CreateRioRequest ==
    /\ pc = "main"
    /\ UNCHANGED decode_result
    /\ UNCHANGED api_outcome
    /\ \E parsed \in BOOLEAN :
         pc' = IF parsed THEN "get_action" ELSE "passthrough"
    /\ UNCHANGED <<req, action_calls, response, origin_sent, origin_response,
                   errors, main_result>>
    /\ UNCHANGED proxy_vars
    /\ UNCHANGED log_vars

GetActionFailures ==
    {"Cannot serialize redirection_io request",
     "Cannot send redirection_io request",
     "Returned status",
     "Cannot deserialize redirection_io API response"}

\* Mutant: the status of the answer is not looked at.
get_action_AnyStatus(o) ==
    IF ~o.json_ok THEN "Cannot serialize redirection_io request"
    ELSE IF ~o.sent THEN "Cannot send redirection_io request"
    ELSE IF ~o.parses THEN "Cannot deserialize redirection_io API response"
    ELSE "Some"

\* application.rs:83-153: "Some" when an Action comes back, else the error
\* get_action logs before it returns None.
get_action(o) ==
    IF ~o.json_ok THEN "Cannot serialize redirection_io request"   \* 85-98
    ELSE IF ~o.sent THEN "Cannot send redirection_io request"      \* 110-123
    ELSE IF o.status # 200 THEN "Returned status"                  \* 125-138
    ELSE IF ~o.parses THEN "Cannot deserialize redirection_io API response"
    ELSE "Some"                                                    \* 140-152

\* main.rs:78-81 with get_action (application.rs:83-153), an Action obtained.
GetActionSome ==
    /\ pc = "get_action"
    /\ UNCHANGED decode_result
    /\ \E o \in ApiOutcomes :
         /\ get_action(o) = "Some"
         /\ api_outcome' = o
    /\ pc' = "proxy"
    /\ UNCHANGED <<req, action_calls, response, origin_sent, origin_response,
                   errors, main_result>>
    /\ UNCHANGED proxy_vars
    /\ UNCHANGED log_vars

\* main.rs:78-81 with get_action (application.rs:83-153), None: the failure is
\* logged and main sends the request to the origin.
GetActionNone ==
    /\ pc = "get_action"
    /\ UNCHANGED decode_result
    /\ \E o \in ApiOutcomes :
         /\ get_action(o) # "Some"
         /\ api_outcome' = o
         /\ errors' = Append(errors, get_action(o))
    /\ pc' = "passthrough"
    /\ UNCHANGED <<req, action_calls, response, origin_sent, origin_response,
                   main_result>>
    /\ UNCHANGED proxy_vars
    /\ UNCHANGED log_vars

\* main.rs:75 and main.rs:80: return Ok(req.send(application.backend_name)?)
PassThrough ==
    /\ pc = "passthrough"
    /\ UNCHANGED decode_result
    /\ UNCHANGED api_outcome
    /\ origin_sent' = Append(origin_sent, req)
    /\ \/ \E r \in OriginResponses :
            /\ response' = r
            /\ origin_response' = r
            /\ main_result' = "Ok"
       \/ /\ main_result' = "Err"
          /\ UNCHANGED <<response, origin_response>>
    /\ pc' = "done"
    /\ UNCHANGED <<req, action_calls, errors>>
    /\ UNCHANGED proxy_vars
    /\ UNCHANGED log_vars

----------------------------------------------------------------------------
(* Application::proxy, application.rs:155-254 *)

\* proxy returns (or unwinds): main.rs:83-89 goes on to log on Ok and returns
\* the error on Err.
ProxyReturns(result) ==
    /\ proxy_result' = result
    /\ pc' = IF result = "Ok" THEN "log" ELSE "done"
    /\ main_result' = IF result = "Ok" THEN main_result ELSE result

\* application.rs:158-166, the match guard: the request has an Accept-Encoding
\* whose text contains "gzip".
AcceptsGzip(r) ==
    /\ HasHeader(r, ACCEPT_ENCODING)
    /\ Contains(GetHeader(r, ACCEPT_ENCODING), "gzip")

\* Mutant: the request's Accept-Encoding is left as it came.
WithGzipOnly_Untouched(r) == r

\* application.rs:162: the request's Accept-Encoding becomes "gzip".
WithGzipOnly(r) == SetHeader(r, ACCEPT_ENCODING, <<"gzip">>)

\* application.rs:156-168: the first status query, accept_encoding (and the
\* rewrite of the request's Accept-Encoding), request_method.
ProxyBegin ==
    /\ pc = "proxy"
    /\ UNCHANGED decode_result
    /\ UNCHANGED api_outcome
    /\ \E code \in StatusOrZero :
         /\ status_code_before_response' = code
         /\ action_calls' = Append(action_calls, Call("get_status_code", 0, code))
    /\ IF HasHeader(req, ACCEPT_ENCODING) /\ ~ToStrOk(GetHeader(req, ACCEPT_ENCODING))
       THEN \* to_str().unwrap() on a value that is not text
            /\ ProxyReturns("panic")
            /\ UNCHANGED <<req, accept_encoding, request_method>>
       ELSE /\ accept_encoding' = AcceptsGzip(req)
            /\ req' = IF AcceptsGzip(req) THEN WithGzipOnly(req) ELSE req
            /\ request_method' = req.method
            /\ pc' = "dispatch"
            /\ UNCHANGED <<proxy_result, main_result>>
    /\ UNCHANGED <<original_req, response, backend_status_code, origin_sent,
                   origin_response, filtered_response, decode_calls, errors>>
    /\ UNCHANGED log_vars

\* Mutant: the origin is called whatever the first query answered.
DispatchesToOrigin_Always(code) == TRUE

\* application.rs:170: the origin is called iff the first query answered 0.
DispatchesToOrigin(code) == code = 0

\* application.rs:170-171: req.send(backend_name) answers.
SendToOrigin ==
    /\ pc = "dispatch"
    /\ UNCHANGED decode_result
    /\ UNCHANGED api_outcome
    /\ DispatchesToOrigin(status_code_before_response)
    /\ origin_sent' = Append(origin_sent, req)
    /\ \E r \in OriginResponses :
         /\ response' = r
         /\ origin_response' = r
    /\ pc' = "post_status"
    /\ UNCHANGED <<req, action_calls, errors, main_result>>
    /\ UNCHANGED proxy_vars
    /\ UNCHANGED log_vars

\* application.rs:171: req.send(backend_name)? fails, proxy returns the error.
SendToOriginFails ==
    /\ pc = "dispatch"
    /\ UNCHANGED decode_result
    /\ UNCHANGED api_outcome
    /\ DispatchesToOrigin(status_code_before_response)
    /\ origin_sent' = Append(origin_sent, req)
    /\ ProxyReturns("Err")
    /\ UNCHANGED <<req, original_req, action_calls, response, origin_response,
                   errors, status_code_before_response, accept_encoding,
                   request_method, backend_status_code, filtered_response,
                   decode_calls>>
    /\ UNCHANGED log_vars

\* application.rs:172-176: the synthetic response.
Synthesize ==
    /\ pc = "dispatch"
    /\ UNCHANGED decode_result
    /\ UNCHANGED api_outcome
    /\ ~DispatchesToOrigin(status_code_before_response)
    /\ response' = NewResponse(status_code_before_response)
    /\ origin_response' = NewResponse(status_code_before_response)
    /\ pc' = "post_status"
    /\ UNCHANGED <<req, action_calls, origin_sent, errors, main_result>>
    /\ UNCHANGED proxy_vars
    /\ UNCHANGED log_vars

\* Mutant: the second answer is dropped.
WithStatusOverride_Dropped(resp, status_code_after_response) == resp

\* application.rs:181-183
WithStatusOverride(resp, status_code_after_response) ==
    IF status_code_after_response # 0
    THEN [resp EXCEPT !.status = status_code_after_response]
    ELSE resp

\* application.rs:178-183: backend_status_code and the second status query.
PostStatus ==
    /\ pc = "post_status"
    /\ UNCHANGED decode_result
    /\ UNCHANGED api_outcome
    /\ backend_status_code' = response.status
    /\ \E code \in StatusOrZero :
         /\ action_calls' =
              Append(action_calls, Call("get_status_code", response.status, code))
         /\ response' = WithStatusOverride(response, code)
    /\ pc' = "filter_headers"
    /\ UNCHANGED <<req, original_req, origin_sent, origin_response, errors,
                   main_result, status_code_before_response, accept_encoding,
                   request_method, filtered_response, decode_calls, proxy_result>>
    /\ UNCHANGED log_vars

\* Mutant: filter_headers is called with the status after the override.
FilterHeadersStatus_Overridden == response.status

\* application.rs:203: the status filter_headers is called with.
FilterHeadersStatus == backend_status_code

\* application.rs:185-207: the header step.
FilterHeaders ==
    /\ pc = "filter_headers"
    /\ UNCHANGED decode_result
    /\ UNCHANGED api_outcome
    /\ \E headers \in HeaderFilterResults(CollectHeaders(response)) :
         /\ action_calls' =
              Append(action_calls,
                     Call("filter_headers", FilterHeadersStatus, headers))
         /\ response' = ApplyHeaders(response, headers)
         /\ filtered_response' = ApplyHeaders(response, headers)
    /\ pc' = "gate"
    /\ UNCHANGED <<req, original_req, origin_sent, origin_response, errors,
                   main_result, status_code_before_response, accept_encoding,
                   request_method, backend_status_code, decode_calls,
                   proxy_result>>
    /\ UNCHANGED log_vars

\* application.rs:209-216, the match guard: the response has a Content-Type
\* whose lowercased text contains "utf-8".
ContentTypeIsUtf8(resp) ==
    /\ HasHeader(resp, CONTENT_TYPE)
    /\ Contains(ToLowercase(GetHeader(resp, CONTENT_TYPE)), "utf-8")

\* application.rs:209-220: the Content-Type gate.
ContentTypeGate ==
    /\ pc = "gate"
    /\ UNCHANGED decode_result
    /\ UNCHANGED api_outcome
    /\ IF HasHeader(response, CONTENT_TYPE) /\ ~ToStrOk(GetHeader(response, CONTENT_TYPE))
       THEN ProxyReturns("panic")   \* to_str().unwrap()
       ELSE IF ContentTypeIsUtf8(response)
            THEN pc' = "body" /\ UNCHANGED <<proxy_result, main_result>>
            ELSE ProxyReturns("Ok")
    /\ UNCHANGED <<req, original_req, action_calls, response, origin_sent,
                   origin_response, errors, status_code_before_response,
                   accept_encoding, request_method, backend_status_code,
                   filtered_response, decode_calls>>
    /\ UNCHANGED log_vars

\* application.rs:234-239: filter, end, and the concatenation.
FilteredBody(body_filter, body_orig) ==
    LET body == Filter(body_filter, body_orig)
        last == End(body_filter)
    IN  IF last # <<>> THEN body \o last ELSE body

\* Mutant: the hint is set and Content-Encoding is left in place.
WithCompressHint_KeepsEncoding(resp, accept) ==
    IF accept THEN SetHeader(resp, COMPRESS_HINT, <<"on">>) ELSE resp

\* application.rs:243-247
WithCompressHint(resp, accept) ==
    IF accept
    THEN SetHeader(RemoveHeader(resp, CONTENT_ENCODING), COMPRESS_HINT, <<"on">>)
    ELSE resp

\* Mutant: the method is not looked at.
BodyBlockRuns_Always(method) == TRUE

\* application.rs:222: the block runs unless the method is HEAD.
BodyBlockRuns(method) == method # "HEAD"

\* application.rs:222-253, HEAD: the block is skipped.
BodySkippedForHead ==
    /\ pc = "body"
    /\ UNCHANGED decode_result
    /\ UNCHANGED api_outcome
    /\ ~BodyBlockRuns(request_method)
    /\ ProxyReturns("Ok")
    /\ UNCHANGED <<req, original_req, action_calls, response, origin_sent,
                   origin_response, errors, status_code_before_response,
                   accept_encoding, request_method, backend_status_code,
                   filtered_response, decode_calls>>
    /\ UNCHANGED log_vars

\* application.rs:223 and 249: create_filter_body answers None.
BodyNoFilter ==
    /\ pc = "body"
    /\ UNCHANGED decode_result
    /\ UNCHANGED api_outcome
    /\ BodyBlockRuns(request_method)
    /\ action_calls' =
         Append(action_calls, Call("create_filter_body", backend_status_code, FALSE))
    /\ ProxyReturns("Ok")
    /\ UNCHANGED <<req, original_req, response, origin_sent, origin_response,
                   errors, status_code_before_response, accept_encoding,
                   request_method, backend_status_code, filtered_response,
                   decode_calls>>
    /\ UNCHANGED log_vars

\* application.rs:223-248: create_filter_body answers a filter; the body is
\* decoded, filtered and set, or decoding fails.
BodyFilter ==
    /\ pc = "body"
    /\ UNCHANGED api_outcome
    /\ BodyBlockRuns(request_method)
    /\ decode_calls' = decode_calls + 1
    /\ decode_result' = decode_original_body(response)
    /\ \E body_filter \in BodyFilters :
         LET created == Append(action_calls,
                               Call("create_filter_body", backend_status_code, TRUE))
             decoded == decode_original_body(response)
         IN  CASE decoded.kind = "panic" ->
                    /\ action_calls' = created
                    /\ ProxyReturns("panic")
                    /\ UNCHANGED <<response, errors>>
               [] decoded.kind = "Err" ->
                    /\ action_calls' = created
                    /\ errors' = Append(errors, "Can not decode original body: "
                                                    \o decoded.err)
                    /\ ProxyReturns("Ok")
                    /\ UNCHANGED response
               [] decoded.kind = "Ok" ->
                    /\ action_calls' =
                         created \o <<Call("filter", decoded.body,
                                           Filter(body_filter, decoded.body)),
                                      Call("end", <<>>, End(body_filter))>>
                    /\ response' =
                         WithCompressHint(
                            [response EXCEPT
                               !.body = FilteredBody(body_filter, decoded.body)],
                            accept_encoding)
                    /\ ProxyReturns("Ok")
                    /\ UNCHANGED errors
    /\ UNCHANGED <<req, original_req, origin_sent, origin_response,
                   status_code_before_response, accept_encoding, request_method,
                   backend_status_code, filtered_response>>
    /\ UNCHANGED log_vars

----------------------------------------------------------------------------
(* Application::log, application.rs:256-326, called from main.rs:85 *)

\* The backend_status_code main hands to log: the second component of what
\* proxy returned.
LogBackendStatusArg == backend_status_code

\* Mutant: should_log_request is asked with the response's own status.
ShouldLogStatus_Final(resp, backend_status) == resp.status

\* application.rs:263: the status should_log_request is asked with.
ShouldLogStatus(resp, backend_status) == backend_status

\* application.rs:267-300: Log::from_proxy
LogRecord(resp) ==
    [status_code |-> resp.status,
     response_headers |-> CollectHeaders(resp),
     method |-> req.method,
     url |-> req.url]

\* Mutant: the Action's answer is not acted on.
LogReturnsEarly_Never(should_log) == FALSE

\* application.rs:263-265: log returns at once when the Action declines.
LogReturnsEarly(should_log) == ~should_log

\* application.rs:256-326, then main returns the response (main.rs:85-86):
\* the Action is asked; unless it declines the record is built, serialized
\* and posted, and a failed post is logged.
Log ==
    /\ pc = "log"
    /\ UNCHANGED decode_result
    /\ UNCHANGED api_outcome
    /\ \E should_log \in BOOLEAN, json_ok \in BOOLEAN, sent \in BOOLEAN :
         /\ action_calls' =
              Append(action_calls,
                     Call("should_log_request",
                          <<TRUE, ShouldLogStatus(response, LogBackendStatusArg)>>,
                          should_log))
         /\ IF LogReturnsEarly(should_log)
            THEN UNCHANGED <<log_records, log_posts, errors>>
            ELSE /\ log_records' = Append(log_records, LogRecord(response))
                 /\ IF ~json_ok
                    THEN UNCHANGED <<log_posts, errors>>    \* application.rs:303
                    ELSE /\ log_posts' = Append(log_posts, LogRecord(response))
                         /\ errors' =
                              IF sent THEN errors
                              ELSE Append(errors, "Can not send \"log\" request")
    /\ main_result' = "Ok"
    /\ pc' = "done"
    /\ UNCHANGED <<req, response, origin_sent, origin_response>>
    /\ UNCHANGED proxy_vars

----------------------------------------------------------------------------

Next ==
    \/ CreateRioRequest
    \/ GetActionSome
    \/ GetActionNone
    \/ PassThrough
    \/ ProxyBegin
    \/ SendToOrigin
    \/ SendToOriginFails
    \/ Synthesize
    \/ PostStatus
    \/ FilterHeaders
    \/ ContentTypeGate
    \/ BodySkippedForHead
    \/ BodyNoFilter
    \/ BodyFilter
    \/ Log

Spec == Init /\ [][Next]_vars

----------------------------------------------------------------------------
(* Vocabulary of the properties *)

\* The calls made on the Action with operation op, in order.
CallsOf(op) == SelectSeq(action_calls, LAMBDA c : c.op = op)

\* proxy has made both status queries (it has a response in hand).
BothQueriesMade == Len(CallsOf("get_status_code")) = 2
FirstAnswer  == CallsOf("get_status_code")[1].ret
SecondAnswer == CallsOf("get_status_code")[2].ret

\* The body filter's filter / end were applied.
BodyFilterRan == CallsOf("filter") # <<>> \/ CallsOf("end") # <<>>

\* The inbound request's Accept-Encoding contains "gzip".
RequestAcceptedGzip ==
    /\ original_req.headers[ACCEPT_ENCODING] # <<>>
    /\ \E i \in 1..Len(original_req.headers[ACCEPT_ENCODING][1]) :
         original_req.headers[ACCEPT_ENCODING][1][i] = "gzip"

\* The Content-Type after the header step contains "utf-8", in any case.
FilteredContentTypeHasUtf8 ==
    /\ filtered_response.headers[CONTENT_TYPE] # <<>>
    /\ \E i \in 1..Len(filtered_response.headers[CONTENT_TYPE][1]) :
         filtered_response.headers[CONTENT_TYPE][1][i] \in {"utf-8", "UTF-8"}

----------------------------------------------------------------------------
(* C1 *)

\* C1 as stated: when the first status query get_status_code(0) answers a
\* non-zero S, the origin is never called and the status of the response
\* proxy returns is S, whatever the second query answers.
C1_StatusIsFirstOverride ==
    (proxy_result = "Ok" /\ FirstAnswer # 0)
        => /\ origin_sent = <<>>
           /\ response.status = FirstAnswer

\* C1, amended: when get_status_code(0) answers a non-zero S the origin is
\* never called, backend_status_code is S, the second query is made with S,
\* and the status of the response is the second answer when that is non-zero
\* and S otherwise.
C1_ShortCircuit ==
    /\ (action_calls # <<>> /\ FirstAnswer # 0) => origin_sent = <<>>
    /\ (BothQueriesMade /\ FirstAnswer # 0)
        => /\ backend_status_code = FirstAnswer
           /\ CallsOf("get_status_code")[2].arg = FirstAnswer
           /\ response.status =
                IF SecondAnswer # 0 THEN SecondAnswer ELSE FirstAnswer

C1_Witness ==
    /\ pc = "done" /\ main_result = "Ok" /\ proxy_result = "Ok"
    /\ FirstAnswer = 301
    /\ SecondAnswer = 410
    /\ response.status = 410
    /\ origin_sent = <<>>

----------------------------------------------------------------------------
(* C2 *)

\* C2: when get_status_code(0) answers 0 and the origin answers with status
\* B, the final status is the second answer S when S is non-zero and B when
\* it is 0, and backend_status_code is B in both cases.
C2_PostResponseOverride ==
    (BothQueriesMade /\ FirstAnswer = 0)
        => /\ Len(origin_sent) = 1
           /\ CallsOf("get_status_code")[2].arg = origin_response.status
           /\ backend_status_code = origin_response.status
           /\ response.status =
                IF SecondAnswer # 0 THEN SecondAnswer ELSE origin_response.status

C2_Witness ==
    /\ pc = "done" /\ main_result = "Ok" /\ proxy_result = "Ok"
    /\ FirstAnswer = 0
    /\ origin_response.status = 404
    /\ SecondAnswer = 301
    /\ response.status = 301
    /\ backend_status_code = 404

----------------------------------------------------------------------------
(* C3 *)

\* C3: when the Content-Type after the header step does not contain "utf-8"
\* in any case (or is absent), or the request method is HEAD, the body proxy
\* returns is the body received, filter and end are never applied, the body
\* is never decoded, and the headers are those the header step left (no
\* Content-Encoding removed, no x-compress-hint added).
C3_BodyPassedThrough ==
    (proxy_result = "Ok"
        /\ (~FilteredContentTypeHasUtf8 \/ original_req.method = "HEAD"))
        => /\ response.body = origin_response.body
           /\ ~BodyFilterRan
           /\ decode_calls = 0
           /\ response.headers = filtered_response.headers

C3_Witness ==
    /\ pc = "done" /\ main_result = "Ok" /\ proxy_result = "Ok"
    /\ original_req.method = "HEAD"
    /\ RequestAcceptedGzip
    /\ FilteredContentTypeHasUtf8
    /\ response.headers[CONTENT_ENCODING] = <<<<"gzip">>>>
    /\ response.body = GzipCompress(<<"old">>)

----------------------------------------------------------------------------
(* C4 *)

\* C4: in every run of proxy that obtains a response, filter_headers is
\* called exactly once, after both status queries, with the status captured
\* before the second override (backend_status_code), never the overridden one.
C4_HeaderFilterOnce ==
    /\ Len(CallsOf("filter_headers")) <= 1
    /\ (pc \in {"gate", "body", "log"} \/ proxy_result = "Ok")
        => /\ Len(CallsOf("filter_headers")) = 1
           /\ Len(action_calls) >= 3
           /\ action_calls[1].op = "get_status_code"
           /\ action_calls[2].op = "get_status_code"
           /\ action_calls[3].op = "filter_headers"
           /\ action_calls[3].arg = origin_response.status
           /\ action_calls[3].arg = backend_status_code

C4_Witness ==
    /\ pc = "done" /\ main_result = "Ok" /\ proxy_result = "Ok"
    /\ origin_response.status = 200
    /\ response.status = 410
    /\ action_calls[3].op = "filter_headers"
    /\ action_calls[3].arg = 200

----------------------------------------------------------------------------
(* C5 *)

\* C5: when the request's Accept-Encoding contains "gzip" and body filtering
\* ran, the final response has no Content-Encoding and carries
\* x-compress-hint: on; and on a path where body filtering did not run the
\* hint header is as the header step left it.
C5_CompressHint ==
    /\ (proxy_result = "Ok" /\ RequestAcceptedGzip /\ BodyFilterRan)
        => /\ response.headers[CONTENT_ENCODING] = <<>>
           /\ response.headers[COMPRESS_HINT] = <<<<"on">>>>
    /\ (proxy_result = "Ok" /\ ~BodyFilterRan)
        => response.headers[COMPRESS_HINT] = filtered_response.headers[COMPRESS_HINT]

C5_Witness ==
    /\ pc = "done" /\ main_result = "Ok" /\ proxy_result = "Ok"
    /\ RequestAcceptedGzip
    /\ BodyFilterRan
    /\ origin_response.headers[CONTENT_ENCODING] = <<<<"gzip">>>>
    /\ filtered_response.headers[COMPRESS_HINT] = <<>>
    /\ response.headers[CONTENT_ENCODING] = <<>>
    /\ response.headers[COMPRESS_HINT] = <<<<"on">>>>

----------------------------------------------------------------------------
(* C6 *)

\* C6: when should_log_request answers false no Log record is built and
\* nothing is posted to the log endpoint; a log POST is only ever sent after
\* should_log_request answered true, and at most one is sent per request.
C6_LogOnlyWhenAsked ==
    /\ Len(CallsOf("should_log_request")) <= 1
    /\ Len(log_records) <= 1
    /\ Len(log_posts) <= 1
    /\ (CallsOf("should_log_request") # <<>>
            /\ ~CallsOf("should_log_request")[1].ret)
        => (log_records = <<>> /\ log_posts = <<>>)
    /\ (log_posts # <<>> \/ log_records # <<>>)
        => /\ CallsOf("should_log_request") # <<>>
           /\ CallsOf("should_log_request")[1].ret

C6_Witness ==
    /\ pc = "done" /\ main_result = "Ok" /\ proxy_result = "Ok"
    /\ CallsOf("should_log_request") # <<>>
    /\ ~CallsOf("should_log_request")[1].ret
    /\ log_records = <<>>
    /\ log_posts = <<>>

----------------------------------------------------------------------------
(* C7 *)

\* The body stage came to decoding and the body cannot be decoded: the
\* Content-Encoding is a text other than "gzip", or the gzip stream is
\* invalid, or the bytes are not UTF-8.
C7_EncodingText ==
    /\ filtered_response.headers[CONTENT_ENCODING] # <<>>
    /\ \A i \in 1..Len(filtered_response.headers[CONTENT_ENCODING][1]) :
         filtered_response.headers[CONTENT_ENCODING][1][i] # BadByte
C7_Gzipped == filtered_response.headers[CONTENT_ENCODING] = <<<<"gzip">>>>
C7_DecodingFails ==
    /\ decode_calls = 1
    /\ \/ C7_EncodingText /\ ~C7_Gzipped
       \/ C7_Gzipped /\ ~GunzipOk(origin_response.body)
       \/ C7_Gzipped /\ GunzipOk(origin_response.body)
                     /\ ~Utf8Ok(Gunzip(origin_response.body))
       \/ filtered_response.headers[CONTENT_ENCODING] = <<>>
            /\ ~Utf8Ok(origin_response.body)

C7_DecodeErrors ==
    SelectSeq(errors,
              LAMBDA e : e \in {"Can not decode original body: DecodingFailed",
                                "Can not decode original body: EncodingNotSupported"})

\* C7: when decoding the body fails, proxy still returns Ok; the body is the
\* origin body, status and headers are those left by the status override and
\* the header step (Content-Encoding kept, no hint added, gzip accepted or
\* not), filter and end are never called, and one error is logged.
C7_DecodeFailureKeepsResponse ==
    C7_DecodingFails
        => /\ proxy_result = "Ok"
           /\ response.body = origin_response.body
           /\ response.headers = filtered_response.headers
           /\ response.status = filtered_response.status
           /\ response.status =
                IF SecondAnswer # 0 THEN SecondAnswer ELSE backend_status_code
           /\ ~BodyFilterRan
           /\ Len(C7_DecodeErrors) = 1

C7_Witness ==
    /\ pc = "done" /\ main_result = "Ok" /\ proxy_result = "Ok"
    /\ C7_DecodingFails
    /\ RequestAcceptedGzip
    /\ response.headers[CONTENT_ENCODING] = <<<<"br">>>>
    /\ response.headers[COMPRESS_HINT] = <<>>
    /\ response.body = <<"old">>
    /\ errors = <<"Can not decode original body: EncodingNotSupported">>

----------------------------------------------------------------------------
(* C8 *)

\* C8: when get_status_code(0) answers a non-zero S, the synthetic response
\* has a non-empty body that mentions S.
C8_SyntheticBodyMentionsStatus ==
    (pc = "post_status" /\ FirstAnswer # 0)
        => /\ response.body # <<>>
           /\ \E i \in 1..Len(response.body) :
                response.body[i] = ToString(FirstAnswer)

----------------------------------------------------------------------------
(* C9 *)

\* C9: after the header step the headers of the response are the list
\* filter_headers returned: a header the filter left out is absent, a header
\* it added or rewrote is there with the filter's value.
C9_HeadersAreFilterResult ==
    (pc \in {"gate", "body", "log"} \/ proxy_result = "Ok")
        => LET result == CallsOf("filter_headers")[1].ret IN
           \A n \in HeaderNames :
              IF \E i \in 1..Len(result) : result[i].name = n
              THEN \E i \in 1..Len(result) :
                      /\ result[i].name = n
                      /\ response.headers[n] = <<result[i].value>>
              ELSE response.headers[n] = <<>>

----------------------------------------------------------------------------
(* C10 *)

----------------------------------------------------------------------------
(* C11 *)

\* A header the proxy reads carries a value that is not text.
C11_NonTextHeader ==
    \/ original_req.headers[ACCEPT_ENCODING] = <<<<BadByte>>>>
    \/ origin_response.headers[CONTENT_TYPE] = <<<<BadByte>>>>
    \/ origin_response.headers[CONTENT_ENCODING] = <<<<BadByte>>>>

\* C11: a header whose value is not text never fails the request: whatever
\* header carries it (Accept-Encoding of the request, Content-Type or
\* Content-Encoding of the response), proxy ends with Ok and a response, not
\* with a panic or an error, the header being left out of what the Action sees.
C11_NonTextHeaderNeverFails ==
    (pc = "done" /\ action_calls # <<>> /\ C11_NonTextHeader
        /\ proxy_result # "Err")
        => /\ proxy_result = "Ok"
           /\ main_result = "Ok"

----------------------------------------------------------------------------
(* C12 *)

\* Resolving the Action failed: the request did not serialize, the POST was
\* not sent, the answer's status is not 200, or its body does not deserialize.
C12_ResolutionFailed ==
    /\ api_outcome.asked
    /\ \/ ~api_outcome.json_ok
       \/ ~api_outcome.sent
       \/ api_outcome.status # 200
       \/ ~api_outcome.parses

----------------------------------------------------------------------------
(* C13 *)

\* C13: the only failure of request handling is an origin-dispatch error: when
\* the dispatch fails proxy returns the error at once (no second status
\* query, no header or body filtering) and nothing is logged to the log
\* endpoint; in every other run main returns a response, and a failed log
\* POST leaves that response as proxy returned it.
C13_OnlyOriginErrorFails ==
    /\ proxy_result = "Err"
        => /\ Len(action_calls) = 1
           /\ Len(origin_sent) = 1
           /\ decode_calls = 0
           /\ log_records = <<>> /\ log_posts = <<>>
           /\ main_result = "Err"
    /\ pc = "done"
        => /\ main_result \in {"Ok", "Err"}
           /\ main_result = "Err"
                => (proxy_result = "Err" \/ (proxy_result = "none" /\ Len(origin_sent) = 1))

----------------------------------------------------------------------------
(* C14 *)

\* C14 as stated: when get_status_code(0) answers 0, the request sent to the
\* origin is the inbound request verbatim: method, URL and every header,
\* Accept-Encoding included whatever its value.
C14_DispatchedVerbatim ==
    (action_calls # <<>> /\ FirstAnswer = 0 /\ origin_sent # <<>>)
        => origin_sent[1] = original_req

\* C14, amended: when get_status_code(0) answers 0, the request sent to the
\* origin has the method, the URL and every header other than Accept-Encoding
\* of the inbound request; its Accept-Encoding is the inbound one when that
\* does not contain "gzip", and exactly "gzip" when it does.
C14_DispatchedWithGzipOnly ==
    (action_calls # <<>> /\ FirstAnswer = 0 /\ origin_sent # <<>>)
        => /\ Len(origin_sent) = 1
           /\ origin_sent[1].method = original_req.method
           /\ origin_sent[1].url = original_req.url
           /\ \A n \in HeaderNames \ {ACCEPT_ENCODING} :
                origin_sent[1].headers[n] = original_req.headers[n]
           /\ origin_sent[1].headers[ACCEPT_ENCODING] =
                IF RequestAcceptedGzip THEN <<<<"gzip">>>>
                ELSE original_req.headers[ACCEPT_ENCODING]

C14_Witness ==
    /\ pc = "done" /\ main_result = "Ok" /\ proxy_result = "Ok"
    /\ FirstAnswer = 0
    /\ original_req.headers[ACCEPT_ENCODING] = <<<<"gzip", ", deflate, br">>>>
    /\ origin_sent[1].headers[ACCEPT_ENCODING] = <<<<"gzip">>>>
    /\ origin_sent[1].method = original_req.method

----------------------------------------------------------------------------
(* C15 *)

\* C15: decode_original_body returns the body unchanged when there is no
\* Content-Encoding and the bytes are UTF-8, the decompressed text when the
\* Content-Encoding is exactly "gzip", EncodingNotSupported for every other
\* Content-Encoding value, and DecodingFailed for an invalid gzip stream or
\* invalid UTF-8; EncodingNotSupported never for gzip or no encoding,
\* DecodingFailed never for an unsupported encoding.
C15_DecodeContract ==
    decode_calls = 1
        => LET encoding == filtered_response.headers[CONTENT_ENCODING]
               body == origin_response.body
           IN  /\ (encoding = <<>> /\ Utf8Ok(body))
                    => decode_result = DecodeOk(body)
               /\ (encoding = <<>> /\ ~Utf8Ok(body))
                    => decode_result = DecodeErr("DecodingFailed")
               /\ (encoding = <<<<"gzip">>>> /\ GunzipOk(body) /\ Utf8Ok(Gunzip(body)))
                    => decode_result = DecodeOk(Gunzip(body))
               /\ (encoding = <<<<"gzip">>>>
                     /\ ~(GunzipOk(body) /\ Utf8Ok(Gunzip(body))))
                    => decode_result = DecodeErr("DecodingFailed")
               /\ encoding \notin {<<>>, <<<<"gzip">>>>}
                    => decode_result = DecodeErr("EncodingNotSupported")

----------------------------------------------------------------------------
(* C16 *)

\* C16: in every response proxy returns, Content-Encoding agrees with the
\* body: a response that still carries Content-Encoding: gzip has the origin's
\* bytes as its body, and a response whose body was replaced by filtered text
\* carries no Content-Encoding, whatever the request's Accept-Encoding and the
\* origin's Content-Encoding.
C16_EncodingMatchesBody ==
    proxy_result = "Ok"
        => /\ response.headers[CONTENT_ENCODING] = <<<<"gzip">>>>
                => response.body = origin_response.body
           /\ BodyFilterRan => response.headers[CONTENT_ENCODING] = <<>>

====
